---- MODULE Spec2Model ----
(***************************************************************************)
(* State/decision engine of the daily trend-following job:                 *)
(*   core/storage.py   load_state / save_state / log_event                 *)
(*   jobs/run_daily.py run() and its helpers                               *)
(*   core/router.py, core/providers.py, core/data.py   provider routes     *)
(*   core/strategy.py  signal_on_off                                       *)
(*   .streamlit/core/portfolio.py   compute_weights / update_kill_switch / *)
(*                                  diff_states                            *)
(*                                                                         *)
(* Conventions.  A Python dict is a function from key strings to values.   *)
(* A float is an exact rational: money amounts are integers, ratios are    *)
(* reduced pairs <<num, den>>.  A file is a record [exists, top, entries,  *)
(* closed]: the JSON text written so far, entry by entry, and whether the  *)
(* closing brace has been written.                                         *)
(*                                                                         *)
(* Specifications.  Spec: the job step by step, with kills between steps.  *)
(* PureSpec: the portfolio and signal functions called on their own.       *)
(* RerunSpec: whole runs on settings and price data that stay the same.    *)
(* StoreSpec: two save_state calls whose steps interleave.                 *)
(***************************************************************************)
EXTENDS Integers, Sequences, FiniteSets, TLC

\* ------------------------------------------------------------------ bounds
\* number of invocations of the job in one behaviour
MaxRuns == 2
\* length of the longest price series a provider returns
MaxLen == 2
\* entries of the payload that reach the file in one write
ChunkEntries == 4
\* length of the longest price series signal_on_off is called on by itself
MaxCloses == 4

\* ------------------------------------------------------- generic helpers
\* dict.update: d.update(e)
Update(d, e) ==
  [k \in (DOMAIN d) \cup (DOMAIN e) |-> IF k \in DOMAIN e THEN e[k] ELSE d[k]]

\* dict.setdefault(k, v)
SetDefault(d, k, v) ==
  IF k \in DOMAIN d THEN d ELSE Update(d, [x \in {k} |-> v])

RECURSIVE GCD(_, _)
GCD(a, b) == IF b = 0 THEN a ELSE GCD(b, a % b)

\* the float n/d as an exact reduced ratio (d > 0, n >= 0)
Ratio(n, d) == LET g == GCD(n, d) IN <<n \div g, d \div g>>

\* Python None
None == <<"None">>
\* JSON null
JNull == <<"null">>
\* float NaN (the moving average of a window that is not full)
NaN == <<"NaN">>

\* ------------------------------------------------------- core/storage.py
STATE_FILE == "state/state.json"
BAK_FILE == "state/state.json.bak"
TMP_FILE == "state/state.json.tmp"
Paths == {STATE_FILE, BAK_FILE, TMP_FILE}

DEFAULT_STATE ==
  [ equity        |-> 100000,
    peak_equity   |-> 100000,
    last_drawdown |-> <<0, 1>>,
    kill_switch   |-> FALSE,
    positions     |-> <<>>,
    last_prices   |-> <<>>,
    last_run      |-> None ]

\* insertion order of the keys of DEFAULT_STATE, then of the keys a state
\* may carry beyond them; json.dump writes a dict in insertion order
DefaultKeyOrder ==
  << "equity", "peak_equity", "last_drawdown", "kill_switch",
     "positions", "last_prices", "last_run" >>
ExtraKeyOrder == << "version", "state_id" >>
KeyOrder == DefaultKeyOrder \o ExtraKeyOrder

\* keys whose value may be None
NullableKeys == {"last_run"}

\* json encoding / decoding of one value of a state dict
py_to_json(k, v) == IF k \in NullableKeys /\ v = None THEN JNull ELSE v
json_to_py(k, j) == IF k \in NullableKeys /\ j = JNull THEN None ELSE j

\* the keys of d in dump order
RECURSIVE OrderedKeys(_, _)
OrderedKeys(d, order) ==
  IF order = <<>> THEN <<>>
  ELSE IF Head(order) \in DOMAIN d
       THEN <<Head(order)>> \o OrderedKeys(d, Tail(order))
       ELSE OrderedKeys(d, Tail(order))

\* the entries json.dump(payload, f, indent=2) writes, in order
json_dump_entries(payload) ==
  LET ks == OrderedKeys(payload, KeyOrder)
  IN  [i \in 1..Len(ks) |-> <<ks[i], py_to_json(ks[i], payload[ks[i]])>>]

\* a file that does not exist
Missing == [exists |-> FALSE, top |-> "object", entries |-> <<>>, closed |-> FALSE]
\* a file just opened with mode "w": it exists and is empty
EmptyFile == [exists |-> TRUE, top |-> "object", entries |-> <<>>, closed |-> FALSE]
\* the complete text of json.dump(payload)
json_dump(payload) ==
  [exists |-> TRUE, top |-> "object", entries |-> json_dump_entries(payload), closed |-> TRUE]

\* json.load succeeds exactly on a complete text
Parses(file) == file.exists /\ file.closed

\* json.load(f) of an object text: the dict of its entries
json_load(file) ==
  LET ks == {file.entries[i][1] : i \in DOMAIN file.entries}
  IN  [k \in ks |->
         LET i == CHOOSE j \in DOMAIN file.entries : file.entries[j][1] = k
         IN  json_to_py(k, file.entries[i][2])]

\* merged = DEFAULT_STATE.copy(); if isinstance(data, dict): merged.update(data)
merge_defaults(file) ==
  IF file.top = "object" THEN Update(DEFAULT_STATE, json_load(file)) ELSE DEFAULT_STATE

\* load_state without the except branch: no look at the backup
load_state_no_backup(f) ==
  IF ~f[STATE_FILE].exists THEN DEFAULT_STATE
  ELSE IF Parses(f[STATE_FILE]) THEN merge_defaults(f[STATE_FILE])
  ELSE DEFAULT_STATE

\* load_state() on the file system f
load_state(f) ==
  IF ~f[STATE_FILE].exists THEN DEFAULT_STATE
  ELSE IF Parses(f[STATE_FILE]) THEN merge_defaults(f[STATE_FILE])
  ELSE IF f[BAK_FILE].exists /\ Parses(f[BAK_FILE]) THEN merge_defaults(f[BAK_FILE])
  ELSE DEFAULT_STATE

\* save_state without payload.update(state)
save_payload_defaults(state) == DEFAULT_STATE

\* save_state: payload = DEFAULT_STATE.copy(); payload.update(state)
save_payload(state) == Update(DEFAULT_STATE, state)

\* save_state writing straight into state.json
save_write_path_live == STATE_FILE

\* save_state: the path the payload is written to
save_write_path == TMP_FILE

\* ------------------------------------------------------ core/portfolio.py
TickerOrder == << "BOVA11", "PETR4", "USDBRL" >>
Tickers == {TickerOrder[i] : i \in DOMAIN TickerOrder}

Zero == <<0, 1>>

\* a >= b for ratios
RatioGeq(a, b) == a[1] * b[2] >= b[1] * a[2]

\* compute_weights giving the whole weight to every ticker that is on
compute_weights_whole(signals) ==
  [t \in DOMAIN signals |-> IF signals[t] = 1 THEN <<1, 1>> ELSE Zero]

\* compute_weights dividing by the number of tickers, on or off
compute_weights_by_len(signals) ==
  LET on == {t \in DOMAIN signals : signals[t] = 1}
  IN  IF Cardinality(on) = 0
      THEN [t \in DOMAIN signals |-> Zero]
      ELSE LET w == Ratio(1, Cardinality(DOMAIN signals))
           IN  [t \in DOMAIN signals |-> IF signals[t] = 1 THEN w ELSE Zero]

compute_weights(signals) ==
  LET on == {t \in DOMAIN signals : signals[t] = 1}
  IN  IF Cardinality(on) = 0
      THEN [t \in DOMAIN signals |-> Zero]
      ELSE LET w == Ratio(1, Cardinality(on))
           IN  [t \in DOMAIN signals |-> IF signals[t] = 1 THEN w ELSE Zero]

\* update_kill_switch triggering only above the threshold
update_kill_switch_strict(equity, peak_equity, max_dd) ==
  LET peak == IF peak_equity >= equity THEN peak_equity ELSE equity
      dd   == IF peak = 0 THEN Zero ELSE Ratio(peak - equity, peak)
      kill == ~RatioGeq(max_dd, dd)
  IN  <<kill, peak, dd>>

\* update_kill_switch taking the equity as the peak
update_kill_switch_no_max(equity, peak_equity, max_dd) ==
  LET peak == equity
      dd   == IF peak = 0 THEN Zero ELSE Ratio(peak - equity, peak)
      kill == RatioGeq(dd, max_dd)
  IN  <<kill, peak, dd>>

\* returns the three-element tuple (kill, peak, dd)
update_kill_switch(equity, peak_equity, max_dd) ==
  LET peak == IF peak_equity >= equity THEN peak_equity ELSE equity
      dd   == IF peak = 0 THEN Zero ELSE Ratio(peak - equity, peak)
      kill == RatioGeq(dd, max_dd)
  IN  <<kill, peak, dd>>

\* int(prev_positions.get(ticker, {}).get("state", 0))
prev_state_of(prev_positions, ticker) ==
  IF ticker \in DOMAIN prev_positions /\ "state" \in DOMAIN prev_positions[ticker]
  THEN prev_positions[ticker].state
  ELSE 0

RECURSIVE diff_loop(_, _, _)
diff_loop(prev_positions, new_weights, keys) ==
  IF keys = <<>> THEN <<>>
  ELSE LET ticker == Head(keys)
           prev_state == prev_state_of(prev_positions, ticker)
           new_state == IF new_weights[ticker][1] > 0 THEN 1 ELSE 0
           rest == diff_loop(prev_positions, new_weights, Tail(keys))
       IN  IF prev_state = 0 /\ new_state = 1
           THEN <<[ticker |-> ticker, action |-> "ENTER"]>> \o rest
           ELSE IF prev_state = 1 /\ new_state = 0
           THEN <<[ticker |-> ticker, action |-> "EXIT"]>> \o rest
           ELSE rest

\* diff_states taking every previous state as 0
diff_states_from_flat(prev_positions, new_weights) ==
  diff_loop(<<>>, new_weights, OrderedKeys(new_weights, TickerOrder))

\* diff_states visiting the tickers of the previous positions as well
diff_states_visits_prev(prev_positions, new_weights) ==
  LET all == [t \in (DOMAIN prev_positions) \cup (DOMAIN new_weights) |->
                IF t \in DOMAIN new_weights THEN new_weights[t] ELSE Zero]
  IN  diff_loop(prev_positions, all, OrderedKeys(all, TickerOrder))

diff_states(prev_positions, new_weights) ==
  diff_loop(prev_positions, new_weights, OrderedKeys(new_weights, TickerOrder))

\* ------------------------------------------------------- core/strategy.py
RECURSIVE SumSeq(_)
SumSeq(s) == IF s = <<>> THEN 0 ELSE Head(s) + SumSeq(Tail(s))

\* signal_on_off with the signal on from the average upwards
signal_on_off_geq(df, sma_window) ==
  IF Len(df) = 0 THEN <<>>
  ELSE [i \in 1..Len(df) |->
         LET full == i >= sma_window
             s    == IF full THEN SumSeq(SubSeq(df, i - sma_window + 1, i)) ELSE 0
         IN  [ Close  |-> df[i],
               SMA    |-> IF full THEN Ratio(s, sma_window) ELSE NaN,
               Signal |-> IF full /\ df[i] * sma_window >= s THEN 1 ELSE 0 ]]

\* the rows of the frame signal_on_off returns for the closes df
signal_on_off(df, sma_window) ==
  IF Len(df) = 0 THEN <<>>
  ELSE [i \in 1..Len(df) |->
         LET full == i >= sma_window
             s    == IF full THEN SumSeq(SubSeq(df, i - sma_window + 1, i)) ELSE 0
         IN  [ Close  |-> df[i],
               SMA    |-> IF full THEN Ratio(s, sma_window) ELSE NaN,
               Signal |-> IF full /\ df[i] * sma_window > s THEN 1 ELSE 0 ]]

\* ------------------------------------- core/router.py, core/providers.py
\* the closes of a frame: a provider delivers a numeric close per point
Closes == {100, 110}
SeriesSet == UNION {[1..n -> Closes] : n \in 1..MaxLen}

Returned(df) == [raises |-> FALSE, df |-> df]
Raised == [raises |-> TRUE, df |-> <<>>]

\* core.data.fetch_history: a frame, or ValueError once the retries of the
\* last source are exhausted
fetch_history == {Raised} \cup {Returned(df) : df \in SeriesSet \cup {<<>>}}

\* yf.download result, pd.DataFrame() when it is None or empty
fetch_history_yahoo == {Returned(df) : df \in SeriesSet \cup {<<>>}}

\* brapi_fetch(...) with no handler around it
fetch_history_brapi == fetch_history

\* every exception of the request is turned into pd.DataFrame()
fetch_history_fx == {Returned(df) : df \in SeriesSet \cup {<<>>}}

\* (the accented spelling of ACAO takes the same route)
route_fetch_history(asset_type, market) ==
  IF asset_type = "ETF" /\ market = "B3" THEN fetch_history_yahoo
  ELSE IF asset_type \in {"STOCK", "ACAO", "EQUITY"} /\ market = "B3" THEN fetch_history_brapi
  ELSE IF asset_type = "FX" THEN fetch_history_fx
  ELSE fetch_history_brapi

\* ------------------------------------------------------ jobs/run_daily.py
DATA_PROVIDER_VERSION == "STOOQ_CSV_IN_ACTIONS_v2"

Universe1 ==
  << [ticker |-> "BOVA11", type |-> "ETF", market |-> "B3"],
     [ticker |-> "PETR4", type |-> "STOCK", market |-> "B3"] >>
Universe2 ==
  << [ticker |-> "USDBRL", type |-> "FX", market |-> "OTC"] >>

\* the settings handed to run(): universe, trend, kill switch, system
Configs ==
  [ assets         : {Universe1, Universe2},
    window         : {2},
    reference      : {"SMA"},
    kill_enabled   : BOOLEAN,
    max_dd         : {<<1, 5>>},
    initial_equity : {50000} ]

TickersOf(assets) == [i \in DOMAIN assets |-> assets[i].ticker]

state_identity(cfg, tickers) ==
  <<tickers, cfg.reference, cfg.window, DATA_PROVIDER_VERSION>>

\* reset_state leaving the peak at zero
reset_state_no_peak(cfg, sid) ==
  [ state_id      |-> sid,
    equity        |-> cfg.initial_equity,
    peak_equity   |-> 0,
    last_drawdown |-> Zero,
    kill_switch   |-> FALSE,
    positions     |-> <<>>,
    last_prices   |-> <<>>,
    last_run      |-> None ]

\* reset_state recording a full drawdown
reset_state_full_drawdown(cfg, sid) ==
  [ state_id      |-> sid,
    equity        |-> cfg.initial_equity,
    peak_equity   |-> cfg.initial_equity,
    last_drawdown |-> <<1, 1>>,
    kill_switch   |-> FALSE,
    positions     |-> <<>>,
    last_prices   |-> <<>>,
    last_run      |-> None ]

reset_state(cfg, sid) ==
  [ state_id      |-> sid,
    equity        |-> cfg.initial_equity,
    peak_equity   |-> cfg.initial_equity,
    last_drawdown |-> Zero,
    kill_switch   |-> FALSE,
    positions     |-> <<>>,
    last_prices   |-> <<>>,
    last_run      |-> None ]

\* state.get("state_id") and state.get("state_id") != sid
state_id_mismatch(state, sid) ==
  "state_id" \in DOMAIN state /\ state.state_id # sid

\* run() setting the equity to the configured initial equity on every run
checked_state_initial_equity(cfg, state, sid) ==
  IF state_id_mismatch(state, sid) THEN reset_state(cfg, sid)
  ELSE [SetDefault(state, "state_id", sid) EXCEPT !.equity = cfg.initial_equity]

\* run() keeping the loaded state whatever its state_id
checked_state_never_reset(cfg, state, sid) == SetDefault(state, "state_id", sid)

\* run() starting every invocation from reset_state
checked_state_always_reset(cfg, state, sid) == reset_state(cfg, sid)

\* run(), lines 144-154: the state the run works on
checked_state(cfg, state, sid) ==
  IF state_id_mismatch(state, sid) THEN reset_state(cfg, sid)
  ELSE LET s1 == SetDefault(state, "state_id", sid)
           s2 == SetDefault(s1, "equity", cfg.initial_equity)
           s3 == SetDefault(s2, "peak_equity", s2.equity)
           s4 == SetDefault(s3, "last_drawdown", Zero)
           s5 == SetDefault(s4, "kill_switch", FALSE)
           s6 == SetDefault(s5, "positions", <<>>)
           s7 == SetDefault(s6, "last_prices", <<>>)
       IN  SetDefault(s7, "last_run", None)

\* run(), lines 165-177: the ticker is skipped, or its signal and price are
\* those of the last row of signal_on_off
ticker_signal(df, sma_window) ==
  LET sig_df == signal_on_off(df, sma_window)
  IN  IF Len(df) = 0 \/ Len(sig_df) = 0
      THEN [skipped |-> TRUE]
      ELSE [skipped |-> FALSE, last_row |-> sig_df[Len(sig_df)]]

\* run(), lines 198-231: weights, kill switch, orders, positions, drawdown.
\* "kill, new_peak = update_kill_switch(...)" raises ValueError unless the
\* returned tuple has exactly two elements.
allocate(cfg, state, signals, prices, now) ==
  LET weights0 == compute_weights(signals)
      ret      == update_kill_switch(state.equity, state.peak_equity, cfg.max_dd)
  IN  IF cfg.kill_enabled /\ Len(ret) # 2
      THEN [raised |-> TRUE, state |-> state, signals |-> signals,
            weights |-> weights0, orders |-> <<>>]
      ELSE
        LET kill    == cfg.kill_enabled /\ ret[1]
            s1      == IF cfg.kill_enabled THEN [state EXCEPT !.peak_equity = ret[2]] ELSE state
            s2      == IF kill THEN [s1 EXCEPT !.kill_switch = TRUE] ELSE s1
            weights == IF kill THEN [t \in DOMAIN signals |-> Zero] ELSE weights0
            sigs    == IF kill THEN [t \in DOMAIN signals |-> 0] ELSE signals
            orders  == diff_states(s2.positions, weights)
            s3      == [s2 EXCEPT
                          !.positions = [t \in DOMAIN sigs |->
                                           [ state  |-> IF weights[t][1] > 0 THEN 1 ELSE 0,
                                             weight |-> weights[t] ]],
                          !.last_prices = prices,
                          !.last_run = now]
            s4      == IF s3.peak_equity > 0
                       THEN [s3 EXCEPT !.last_drawdown =
                               Ratio(s3.peak_equity - s3.equity, s3.peak_equity)]
                       ELSE s3
        IN  [raised |-> FALSE, state |-> s4, signals |-> sigs,
             weights |-> weights, orders |-> orders]

\* run(), lines 183-193: the NO_DATA event
no_data_event(c, sid, now, skip) ==
  [ type     |-> "NO_DATA",
    ts       |-> now,
    provider |-> DATA_PROVIDER_VERSION,
    state_id |-> sid,
    skipped  |-> skip,
    universe |-> TickersOf(c.assets) ]

\* run(), lines 233-249: the RUN event of the allocation a
run_event(c, sid, now, a, skip, price) ==
  [ type               |-> "RUN",
    ts                 |-> now,
    provider           |-> DATA_PROVIDER_VERSION,
    state_id           |-> sid,
    kill_switch        |-> a.state.kill_switch,
    trend              |-> [reference |-> c.reference, window |-> c.window],
    universe           |-> TickersOf(c.assets),
    effective_universe |-> OrderedKeys(a.signals, TickerOrder),
    skipped            |-> skip,
    signals            |-> a.signals,
    weights            |-> a.weights,
    prices             |-> price,
    orders             |-> a.orders ]

\* a NO_DATA path that also empties the positions
no_data_state_flat(state, now) == [state EXCEPT !.last_run = now, !.positions = <<>>]

\* run(), line 194: the NO_DATA path touches last_run only
no_data_state(state, now) == [state EXCEPT !.last_run = now]

\* ------------------------------------------------- files before the job
\* the fingerprint of the first universe
Sid1 == state_identity([reference |-> "SMA", window |-> 2], TickersOf(Universe1))

Timestamp(n) == <<"ts", n>>

\* a state persisted by an earlier run over Universe1
AcceptedState ==
  [ state_id      |-> Sid1,
    equity        |-> 100000,
    peak_equity   |-> 100000,
    last_drawdown |-> Zero,
    kill_switch   |-> FALSE,
    positions     |-> [t \in {"BOVA11", "PETR4"} |->
                         IF t = "BOVA11" THEN [state |-> 1, weight |-> <<1, 1>>]
                         ELSE [state |-> 0, weight |-> Zero]],
    last_prices   |-> [t \in {"BOVA11", "PETR4"} |-> 100],
    last_run      |-> Timestamp(0) ]

\* a state whose kill switch is on: drawdown 20%, every position flat
KilledState ==
  [ state_id      |-> Sid1,
    equity        |-> 80000,
    peak_equity   |-> 100000,
    last_drawdown |-> <<1, 5>>,
    kill_switch   |-> TRUE,
    positions     |-> [t \in {"BOVA11", "PETR4"} |-> [state |-> 0, weight |-> Zero]],
    last_prices   |-> [t \in {"BOVA11", "PETR4"} |-> 100],
    last_run      |-> Timestamp(0) ]

\* the state before AcceptedState, kept as the backup
BackupState ==
  [AcceptedState EXCEPT
     !.positions = [t \in {"BOVA11", "PETR4"} |-> [state |-> 0, weight |-> Zero]]]

\* the file the first storage module writes: no last_prices, a version key
MvpFile ==
  [ exists  |-> TRUE, top |-> "object", closed |-> TRUE,
    entries |-> << <<"equity", 100000>>, <<"peak_equity", 100000>>,
                   <<"last_drawdown", Zero>>, <<"kill_switch", FALSE>>,
                   <<"positions", <<>> >>, <<"last_run", JNull>>,
                   <<"version", "mvp-1">> >> ]

\* a truncated text: the first entries of a dump, no closing brace
Truncated(file) ==
  [file EXCEPT !.entries = SubSeq(file.entries, 1, 3), !.closed = FALSE]

\* a text that parses to a list
ArrayFile == [exists |-> TRUE, top |-> "array", entries |-> <<>>, closed |-> TRUE]

BackupFiles ==
  { Missing, json_dump(BackupState), Truncated(json_dump(BackupState)), ArrayFile }

\* the <<state.json, state.json.bak, state.json.tmp>> the job may find:
\* nothing yet, the file of the first storage module, a saved state with its
\* backup, what a save killed before its last rename leaves, and a damaged
\* state.json next to every kind of backup
StateDirs ==
  { <<Missing, Missing, Missing>>,
    <<MvpFile, Missing, Missing>>,
    <<json_dump(AcceptedState), json_dump(BackupState), Missing>>,
    <<json_dump(KilledState), json_dump(BackupState), Missing>>,
    <<Missing, json_dump(BackupState), json_dump(AcceptedState)>> }
  \cup {<<Truncated(json_dump(AcceptedState)), bak, Missing>> : bak \in BackupFiles}

\* -------------------------------------------------------------- the state
VARIABLES
  fs,       \* path -> file
  log,      \* the lines of events.log
  pc,       \* where the job is
  runs,     \* invocations so far
  cfg,      \* the settings of the current invocation
  st,       \* run(): state
  signals,  \* run(): signals
  prices,   \* run(): prices
  skipped,  \* run(): skipped
  idx,      \* run(): position of the fetch loop in assets
  loaded,   \* what load_state() returned to the current invocation
  fs0,      \* the files when the current invocation started
  log0,     \* the log when the current invocation started
  killed,   \* the step the process was killed before, "no" while it lives
  call,     \* the last call of a function taken on its own, with its result
  feed,     \* ticker -> frame, when the price data is held fixed over the runs
  savers    \* the save_state calls in progress when several run at once

\* the price data is not held fixed; no save_state runs beside the job
NoFeed == <<>>
NoSavers == <<>>

\* no function has been called
NoCall == [fn |-> "none"]

\* the variables of the job
jobvars == <<fs, log, pc, runs, cfg, st, signals, prices, skipped, idx, loaded, fs0, log0, killed>>

vars == <<fs, log, pc, runs, cfg, st, signals, prices, skipped, idx, loaded, fs0, log0, killed, call, feed, savers>>

Sid == state_identity(cfg, TickersOf(cfg.assets))
Now == Timestamp(runs)

\* the files of the state directory d
FilesOf(d) ==
  [p \in Paths |-> IF p = STATE_FILE THEN d[1] ELSE IF p = BAK_FILE THEN d[2] ELSE d[3]]

Init ==
  /\ \E d \in StateDirs : fs = FilesOf(d)
  /\ log = <<>>
  /\ pc = "idle"
  /\ runs = 0
  /\ cfg = CHOOSE c \in Configs : TRUE
  /\ st = DEFAULT_STATE
  /\ signals = <<>>
  /\ prices = <<>>
  /\ skipped = <<>>
  /\ idx = 1
  /\ loaded = DEFAULT_STATE
  /\ fs0 = fs
  /\ log0 = log
  /\ killed = "no"
  /\ call = NoCall
  /\ feed = NoFeed
  /\ savers = NoSavers

\* -------------------------------------------------------------- log_event
\* log_event opening the log with mode "w"
log_event_rewrite(event) == log' = <<event>>

log_event(event) == log' = Append(log, event)

\* --------------------------------------------------------------- run()
\* lines 130-158: settings, load_state, identity check, empty accumulators
RunStart ==
  /\ pc \in {"idle", "done", "error"}
  /\ runs < MaxRuns
  /\ \E c \in Configs :
       /\ cfg' = c
       /\ loaded' = load_state(fs)
       /\ st' = checked_state(c, load_state(fs), state_identity(c, TickersOf(c.assets)))
  /\ runs' = runs + 1
  /\ signals' = <<>>
  /\ prices' = <<>>
  /\ skipped' = <<>>
  /\ idx' = 1
  /\ fs0' = fs
  /\ log0' = log
  /\ pc' = IF Len(cfg'.assets) = 0 THEN "decide" ELSE "fetch"
  /\ UNCHANGED <<fs, log, killed, call, feed, savers>>

\* lines 161-177: one iteration of the fetch loop
FetchTicker ==
  /\ pc = "fetch"
  /\ LET asset == cfg.assets[idx]
         t     == asset.ticker
     IN  \E r \in route_fetch_history(asset.type, asset.market) :
           IF r.raises
           THEN /\ pc' = "error"
                /\ UNCHANGED <<signals, prices, skipped, idx>>
           ELSE LET got == ticker_signal(r.df, cfg.window)
                IN  /\ IF got.skipped
                       THEN /\ skipped' = Append(skipped, t)
                            /\ UNCHANGED <<signals, prices>>
                       ELSE /\ signals' = Update(signals, [x \in {t} |-> got.last_row.Signal])
                            /\ prices' = Update(prices, [x \in {t} |-> got.last_row.Close])
                            /\ UNCHANGED skipped
                    /\ idx' = idx + 1
                    /\ pc' = IF idx + 1 > Len(cfg.assets) THEN "decide" ELSE "fetch"
  /\ UNCHANGED <<fs, log, runs, cfg, st, loaded, fs0, log0, killed, call, feed, savers>>

\* lines 182-196: no signal at all
NoData ==
  /\ pc = "decide"
  /\ DOMAIN signals = {}
  /\ log_event(no_data_event(cfg, Sid, Now, skipped))
  /\ st' = no_data_state(st, Now)
  /\ pc' = "save_open"
  /\ UNCHANGED <<fs, runs, cfg, signals, prices, skipped, idx, loaded, fs0, log0, killed, call, feed, savers>>

\* lines 198-249: allocation, kill switch, orders, the RUN event
Allocate ==
  /\ pc = "decide"
  /\ DOMAIN signals # {}
  /\ LET a == allocate(cfg, st, signals, prices, Now)
     IN  IF a.raised
         THEN /\ pc' = "error"
              /\ UNCHANGED <<log, st, signals>>
         ELSE /\ st' = a.state
              /\ signals' = a.signals
              /\ log_event(run_event(cfg, Sid, Now, a, skipped, prices))
              /\ pc' = "save_open"
  /\ UNCHANGED <<fs, runs, cfg, prices, skipped, idx, loaded, fs0, log0, killed, call, feed, savers>>

\* ----------------------------------------------------------- save_state
\* os.replace that removes src and leaves dst as it was
os_replace_drops(f, src, dst) == [f EXCEPT ![src] = Missing]

\* os.replace(src, dst) on the file system f
os_replace(f, src, dst) == [f EXCEPT ![dst] = f[src], ![src] = Missing]

\* open(tmp, "w")
SaveOpenTmp ==
  /\ pc = "save_open"
  /\ fs' = [fs EXCEPT ![save_write_path] = EmptyFile]
  /\ pc' = "save_write"
  /\ UNCHANGED <<log, runs, cfg, st, signals, prices, skipped, idx, loaded, fs0, log0, killed, call, feed, savers>>

\* json.dump: the next piece of the payload reaches the file
SaveWriteChunk ==
  /\ pc = "save_write"
  /\ LET entries == json_dump_entries(save_payload(st))
         n       == Len(fs[save_write_path].entries)
         m       == IF n + ChunkEntries < Len(entries) THEN n + ChunkEntries ELSE Len(entries)
     IN  /\ n < Len(entries)
         /\ fs' = [fs EXCEPT ![save_write_path].entries = SubSeq(entries, 1, m)]
  /\ UNCHANGED <<log, pc, runs, cfg, st, signals, prices, skipped, idx, loaded, fs0, log0, killed, call, feed, savers>>

\* the closing brace, flush, fsync, close
SaveCloseTmp ==
  /\ pc = "save_write"
  /\ Len(fs[save_write_path].entries) = Len(json_dump_entries(save_payload(st)))
  /\ fs' = [fs EXCEPT ![save_write_path].closed = TRUE]
  /\ pc' = "save_backup"
  /\ UNCHANGED <<log, runs, cfg, st, signals, prices, skipped, idx, loaded, fs0, log0, killed, call, feed, savers>>

\* lines 93-97: the current file becomes the backup; an os.replace that
\* fails is passed over and leaves the files as they are
SaveBackup ==
  /\ pc = "save_backup"
  /\ \E renamed \in BOOLEAN :
       fs' = IF fs[STATE_FILE].exists /\ renamed
             THEN os_replace(fs, STATE_FILE, BAK_FILE)
             ELSE fs
  /\ pc' = "save_promote"
  /\ UNCHANGED <<log, runs, cfg, st, signals, prices, skipped, idx, loaded, fs0, log0, killed, call, feed, savers>>

\* line 100: os.replace(tmp, STATE_FILE); FileNotFoundError without a tmp
SavePromote ==
  /\ pc = "save_promote"
  /\ IF fs[TMP_FILE].exists
     THEN /\ fs' = os_replace(fs, TMP_FILE, STATE_FILE)
          /\ pc' = "saved"
     ELSE /\ pc' = "error"
          /\ UNCHANGED fs
  /\ UNCHANGED <<log, runs, cfg, st, signals, prices, skipped, idx, loaded, fs0, log0, killed, call, feed, savers>>

\* save_state and then run() return
RunReturn ==
  /\ pc = "saved"
  /\ pc' = "done"
  /\ UNCHANGED <<fs, log, runs, cfg, st, signals, prices, skipped, idx, loaded, fs0, log0, killed, call, feed, savers>>

\* the process is killed between two steps; the files stay as they are
Crash ==
  /\ pc \in {"fetch", "decide", "save_open", "save_write", "save_backup",
             "save_promote", "saved"}
  /\ killed' = pc
  /\ pc' = "crashed"
  /\ UNCHANGED <<fs, log, runs, cfg, st, signals, prices, skipped, idx, loaded, fs0, log0, call, feed, savers>>

Next ==
  \/ RunStart
  \/ FetchTicker
  \/ NoData
  \/ Allocate
  \/ SaveOpenTmp
  \/ SaveWriteChunk
  \/ SaveCloseTmp
  \/ SaveBackup
  \/ SavePromote
  \/ RunReturn
  \/ Crash

Spec == Init /\ [][Next]_vars

TypeOK ==
  /\ pc \in {"idle", "fetch", "decide", "save_open", "save_write", "save_backup",
             "save_promote", "saved", "done", "error", "crashed"}
  /\ runs \in 0..MaxRuns
  /\ cfg \in Configs

\* ------------------------------------------------------------ properties
SavePcs == {"save_open", "save_write", "save_backup", "save_promote"}

\* the process is about to take step p, or was killed right before it
At(p) == pc = p \/ (pc = "crashed" /\ killed = p)

InSave == \E p \in SavePcs \cup {"saved"} : At(p)

\* the persisted state has the kill switch on
PersistedKill(f) == Parses(f[STATE_FILE]) /\ merge_defaults(f[STATE_FILE]).kill_switch

\* the current invocation appended exactly one event, of type ty
Appended(ty) == Len(log) = Len(log0) + 1 /\ log[Len(log)].type = ty

\* C1: a save_state that starts with a valid state.json and is killed before
\* the final os.replace leaves state.json in place with the previous state;
\* killed right after the replace, state.json holds the complete new state.
C1_CrashKeepsLiveFile ==
  (pc = "crashed" /\ Parses(fs0[STATE_FILE])) =>
     /\ killed \in SavePcs => fs[STATE_FILE] = fs0[STATE_FILE]
     /\ killed = "saved" => fs[STATE_FILE] = json_dump(save_payload(st))

\* C2: at every point of save_state, state.json, whenever it exists, is the
\* previous file or the complete new one, never a partly written payload.
C2_LiveNeverPartial ==
  (InSave /\ fs[STATE_FILE].exists) =>
     /\ \/ fs[STATE_FILE] = fs0[STATE_FILE]
        \/ fs[STATE_FILE] = json_dump(save_payload(st))
     /\ Parses(fs0[STATE_FILE]) => Parses(fs[STATE_FILE])

C2_Witness ==
  /\ At("save_write")
  /\ fs[TMP_FILE].exists /\ ~fs[TMP_FILE].closed /\ fs[TMP_FILE].entries # <<>>
  /\ Parses(fs[STATE_FILE])

FileKeys(file) == {file.entries[i][1] : i \in DOMAIN file.entries}
FileValue(file, k) ==
  LET i == CHOOSE j \in DOMAIN file.entries : file.entries[j][1] = k
  IN  json_to_py(k, file.entries[i][2])

\* d is the content of file with the defaults for the keys it lacks
FilledWithDefaults(d, file) ==
  /\ DOMAIN d = FileKeys(file) \cup DOMAIN DEFAULT_STATE
  /\ \A k \in DOMAIN d :
       d[k] = IF k \in FileKeys(file) THEN FileValue(file, k) ELSE DEFAULT_STATE[k]

\* C3: load_state returns the defaults when state.json is missing, the
\* content of state.json.bak filled with defaults when state.json does not
\* parse and the backup does, and the defaults when neither parses.
C3_LoadNeverFails ==
  pc # "idle" =>
    LET live == fs0[STATE_FILE]
        bak  == fs0[BAK_FILE]
    IN  /\ ~live.exists => loaded = DEFAULT_STATE
        /\ (live.exists /\ ~Parses(live) /\ Parses(bak)) => FilledWithDefaults(loaded, bak)
        /\ (live.exists /\ ~Parses(live) /\ ~Parses(bak)) => loaded = DEFAULT_STATE

C3_Witness ==
  /\ pc = "fetch"
  /\ fs0[STATE_FILE].exists /\ ~Parses(fs0[STATE_FILE])
  /\ Parses(fs0[BAK_FILE]) /\ fs0[BAK_FILE].entries # <<>>
  /\ loaded.state_id = Sid1
  /\ loaded # DEFAULT_STATE

C6_KilledMeansFlat ==
  (pc = "saved" /\ PersistedKill(fs)) =>
     LET positions == merge_defaults(fs[STATE_FILE]).positions
     IN  \A t \in DOMAIN positions :
           positions[t].state = 0 /\ positions[t].weight = Zero

\* C7: a run whose loaded state has kill_switch = true fetches nothing,
\* changes nothing in state.json and ends with one RUN_SKIPPED event.
C7_KilledRunSkips ==
  (pc # "idle" /\ loaded.kill_switch) =>
     /\ idx = 1
     /\ fs[STATE_FILE] = fs0[STATE_FILE]
     /\ pc = "done" => Appended("RUN_SKIPPED")

\* C8: every invocation, ended normally or by an error, has appended exactly
\* one event, of type RUN, NO_DATA, RUN_SKIPPED or RUN_ERROR.
C8_OneEventPerRun ==
  pc \in {"done", "error"} =>
     \E ty \in {"RUN", "NO_DATA", "RUN_SKIPPED", "RUN_ERROR"} : Appended(ty)

\* C9: for every loaded state, the state persisted by a NO_DATA run has the
\* positions, equity, peak_equity and kill_switch of the loaded one: prior
\* positions are never wiped.
C9_NoDataKeepsState ==
  (pc \in {"saved", "done"} /\ Appended("NO_DATA")) =>
     LET p == load_state(fs)
     IN  \A k \in {"positions", "equity", "peak_equity", "kill_switch"} : p[k] = loaded[k]

\* C9, amended: ... when the loaded state_id is absent or equals the
\* fingerprint; then only last_run changes, and an absent state_id is set.
C9_NoDataKeepsStateUnlessReset ==
  (pc \in {"saved", "done"} /\ Appended("NO_DATA") /\ ~state_id_mismatch(loaded, Sid)) =>
     LET p == load_state(fs)
     IN  /\ DOMAIN p = DOMAIN loaded \cup {"state_id"}
         /\ \A k \in DOMAIN loaded \ {"last_run"} : p[k] = loaded[k]
         /\ p.state_id = Sid
         /\ p.last_run = Now

C9_Witness ==
  /\ pc = "saved"
  /\ Appended("NO_DATA")
  /\ ~state_id_mismatch(loaded, Sid)
  /\ DOMAIN loaded.positions # {}
  /\ load_state(fs).positions = loaded.positions
  /\ load_state(fs).last_run # loaded.last_run

\* C10: a ticker whose data cannot be obtained never aborts the run: no run
\* ends in an error inside the fetch loop.
C10_TickerFailureNeverAborts ==
  pc = "error" => idx > Len(cfg.assets)

\* the orders of the event the current invocation appended
LoggedOrders == {log[Len(log)].orders[i] : i \in DOMAIN log[Len(log)].orders}

\* C11: when the loaded state_id differs from the fingerprint of the
\* configuration, the run works from the start on a state with equity and
\* peak_equity at the configured initial equity, kill_switch false, no
\* positions and no last_prices; its orders are ENTERs for the tickers that
\* get a weight, and the state it persists carries the new state_id.
C11_MismatchResets ==
  (pc # "idle" /\ "state_id" \in DOMAIN loaded /\ loaded.state_id # Sid) =>
     /\ pc \in {"fetch", "decide"} =>
          /\ st.equity = cfg.initial_equity
          /\ st.peak_equity = cfg.initial_equity
          /\ st.kill_switch = FALSE
          /\ st.positions = <<>>
          /\ st.last_prices = <<>>
     /\ pc \in {"saved", "done"} =>
          LET p == load_state(fs)
          IN  /\ p.state_id = Sid
              /\ p.equity = cfg.initial_equity
              /\ p.peak_equity = cfg.initial_equity
              /\ p.kill_switch = FALSE
              /\ Appended("NO_DATA") => p.positions = <<>> /\ p.last_prices = <<>>
              /\ Appended("RUN") =>
                   LoggedOrders =
                     { [ticker |-> t, action |-> "ENTER"] :
                         t \in {u \in DOMAIN p.positions : p.positions[u].weight[1] > 0} }

C11_Witness ==
  /\ pc = "saved"
  /\ "state_id" \in DOMAIN loaded /\ loaded.state_id # Sid
  /\ loaded.equity # cfg.initial_equity
  /\ \E t \in DOMAIN loaded.positions : loaded.positions[t].state = 1
  /\ Appended("RUN")
  /\ LoggedOrders # {}
  /\ load_state(fs).state_id = Sid

\* ------------------------------------------- the functions on their own
\* signal maps over every set of tickers
SignalMaps == UNION {[S -> {0, 1}] : S \in SUBSET Tickers}

\* compute_weights(signals) for some signal map
CallComputeWeights ==
  /\ call = NoCall
  /\ \E sg \in SignalMaps :
       call' = [fn |-> "compute_weights", signals |-> sg, ret |-> compute_weights(sg)]
  /\ UNCHANGED <<jobvars, feed, savers>>

\* equity and peak values, thresholds
Equities == {0, 80000, 90000, 100000, 110000}
MaxDrawdowns == {<<1, 10>>, <<1, 5>>, <<1, 2>>}

\* update_kill_switch(equity, peak_equity, max_dd) for some arguments
CallUpdateKillSwitch ==
  /\ call = NoCall
  /\ \E e \in Equities, p \in Equities, m \in MaxDrawdowns :
       call' = [ fn |-> "update_kill_switch", equity |-> e, peak_equity |-> p,
                 max_dd |-> m, chained |-> FALSE, ret |-> update_kill_switch(e, p, m) ]
  /\ UNCHANGED <<jobvars, feed, savers>>

\* the next equity of a sequence: the call takes the peak the last one returned
CallUpdateKillSwitchAgain ==
  /\ call.fn = "update_kill_switch"
  /\ \E e \in Equities :
       call' = [ fn |-> "update_kill_switch", equity |-> e, peak_equity |-> call.ret[2],
                 max_dd |-> call.max_dd, chained |-> TRUE,
                 ret |-> update_kill_switch(e, call.ret[2], call.max_dd) ]
  /\ UNCHANGED <<jobvars, feed, savers>>

\* previous positions: off, on, and an entry without a state
PrevEntries ==
  { [state |-> 0, weight |-> Zero], [state |-> 1, weight |-> <<1, 1>>], [weight |-> Zero] }
PrevPositionMaps == UNION {[S -> PrevEntries] : S \in SUBSET Tickers}
WeightMaps == UNION {[S -> {Zero, <<1, 2>>, <<1, 1>>}] : S \in SUBSET Tickers}

\* diff_states(prev_positions, new_weights) for some pair of maps
CallDiffStates ==
  /\ call = NoCall
  /\ \E prev \in PrevPositionMaps, nw \in WeightMaps :
       call' = [ fn |-> "diff_states", prev_positions |-> prev, new_weights |-> nw,
                 ret |-> diff_states(prev, nw) ]
  /\ UNCHANGED <<jobvars, feed, savers>>

\* price series of up to MaxCloses closes, and averaging windows
CloseValues == {100, 110, 120}
CloseSeries == UNION {[1..n -> CloseValues] : n \in 0..MaxCloses}
Windows == {2, 3}

\* signal_on_off(df, sma_window) and the row run() takes from it
CallSignalOnOff ==
  /\ call = NoCall
  /\ \E df \in CloseSeries, w \in Windows :
       call' = [ fn |-> "signal_on_off", df |-> df, sma_window |-> w,
                 ret |-> ticker_signal(df, w) ]
  /\ UNCHANGED <<jobvars, feed, savers>>

PureInit == Init /\ \A p \in Paths : ~fs[p].exists

PureNext ==
  \/ CallComputeWeights
  \/ CallUpdateKillSwitch
  \/ CallUpdateKillSwitchAgain
  \/ CallDiffStates
  \/ CallSignalOnOff

PureSpec == PureInit /\ [][PureNext]_vars

\* a + b for ratios
RatioAdd(a, b) == Ratio(a[1] * b[2] + b[1] * a[2], a[2] * b[2])

\* the sum of the values of the ratio map w over the tickers in keys
RECURSIVE RatioSum(_, _)
RatioSum(w, keys) ==
  IF keys = <<>> THEN Zero ELSE RatioAdd(w[Head(keys)], RatioSum(w, Tail(keys)))

\* C12: compute_weights returns a map over exactly the tickers of the signal
\* map; with on the number of signals equal to 1, a ticker with signal 1 gets
\* 1/on and a ticker with signal 0 gets 0; the weights sum to 1 when on > 0
\* and are all 0 when on = 0.
C12_ComputeWeights ==
  call.fn = "compute_weights" =>
     LET sg == call.signals
         w  == call.ret
         on == Cardinality({t \in DOMAIN sg : sg[t] = 1})
     IN  /\ DOMAIN w = DOMAIN sg
         /\ \A t \in DOMAIN sg :
              /\ sg[t] = 1 => (w[t][1] * on = w[t][2])
              /\ sg[t] = 0 => w[t][1] = 0
         /\ on > 0 => RatioSum(w, OrderedKeys(w, TickerOrder)) = <<1, 1>>
         /\ on = 0 => \A t \in DOMAIN w : w[t] = Zero

C12_Witness ==
  /\ call.fn = "compute_weights"
  /\ Cardinality({t \in DOMAIN call.signals : call.signals[t] = 1}) = 2
  /\ \E t \in DOMAIN call.signals : call.signals[t] = 0
  /\ \E t \in DOMAIN call.ret : call.ret[t] = <<1, 2>>

\* C13: update_kill_switch returns the larger of peak_equity and equity as
\* the new peak, the drawdown 0 for a peak of 0 and (peak - equity)/peak
\* otherwise, and triggers exactly when the drawdown is at least max_dd; for
\* an equity >= 0 the drawdown lies in [0, 1].
C13_UpdateKillSwitch ==
  call.fn = "update_kill_switch" =>
     LET e        == call.equity
         p        == call.peak_equity
         m        == call.max_dd
         kill     == call.ret[1]
         new_peak == call.ret[2]
         dd       == call.ret[3]
     IN  /\ new_peak \in {e, p} /\ new_peak >= e /\ new_peak >= p
         /\ new_peak = 0 => dd = Zero
         /\ new_peak # 0 => (dd[2] > 0 /\ dd[1] * new_peak = (new_peak - e) * dd[2])
         /\ kill <=> (dd[1] * m[2] >= m[1] * dd[2])
         /\ dd[1] >= 0 /\ dd[1] <= dd[2]

C13_Witness ==
  /\ call.fn = "update_kill_switch"
  /\ call.equity = 80000 /\ call.peak_equity = 100000 /\ call.max_dd = <<1, 5>>
  /\ call.ret = <<TRUE, 100000, <<1, 5>> >>

\* C14: along a sequence of calls of update_kill_switch, each taking the peak
\* the previous call returned, the returned peak never decreases and is at
\* least the equity of the call.
C14_PeakRatchet ==
  [][(call'.fn = "update_kill_switch" /\ call'.chained) =>
        /\ call'.peak_equity = call.ret[2]
        /\ call'.ret[2] >= call.ret[2]
        /\ call'.ret[2] >= call'.equity]_vars

C14_Witness ==
  /\ call.fn = "update_kill_switch"
  /\ call.chained
  /\ call.peak_equity > 0
  /\ call.ret[2] > call.peak_equity

\* C15: diff_states returns one ENTER for each ticker of new_weights whose
\* previous state is 0 or unknown and whose new weight is > 0, one EXIT for
\* each whose previous state is 1 and whose new weight is 0, and nothing
\* else: at most one order per ticker, none for an unchanged state.
C15_DiffStates ==
  call.fn = "diff_states" =>
     LET prev    == call.prev_positions
         nw      == call.new_weights
         orders  == call.ret
         on(t)   == t \in DOMAIN prev /\ "state" \in DOMAIN prev[t] /\ prev[t].state = 1
         off(t)  == t \notin DOMAIN prev \/ "state" \notin DOMAIN prev[t] \/ prev[t].state = 0
         enters  == {t \in DOMAIN nw : off(t) /\ nw[t][1] > 0}
         exits   == {t \in DOMAIN nw : on(t) /\ nw[t][1] = 0}
     IN  /\ {orders[i] : i \in DOMAIN orders} =
              {[ticker |-> t, action |-> "ENTER"] : t \in enters}
                \cup {[ticker |-> t, action |-> "EXIT"] : t \in exits}
         /\ \A i, j \in DOMAIN orders : orders[i].ticker = orders[j].ticker => i = j

C15_Witness ==
  /\ call.fn = "diff_states"
  /\ call.prev_positions = [t \in {"BOVA11", "PETR4"} |-> [state |-> 1, weight |-> <<1, 1>>]]
  /\ call.new_weights = [t \in Tickers |-> IF t = "BOVA11" THEN Zero ELSE <<1, 2>>]
  /\ call.ret = << [ticker |-> "BOVA11", action |-> "EXIT"],
                   [ticker |-> "USDBRL", action |-> "ENTER"] >>

\* the effective universe of the event the current invocation appended
LoggedEffectiveUniverse ==
  {log[Len(log)].effective_universe[i] : i \in DOMAIN log[Len(log)].effective_universe}

\* C16: the positions a RUN persists have exactly the effective universe of
\* the run as keys; a ticker of the previous positions that gave no signal in
\* this run is dropped from them and gets no order, whatever its state was.
C16_PositionsAreEffectiveUniverse ==
  (pc \in {"saved", "done"} /\ Appended("RUN")) =>
     LET positions == load_state(fs).positions
     IN  /\ DOMAIN positions = LoggedEffectiveUniverse
         /\ DOMAIN positions = DOMAIN signals
         /\ \A t \in (DOMAIN loaded.positions) \ (DOMAIN signals) :
              /\ t \notin DOMAIN positions
              /\ \A o \in LoggedOrders : o.ticker # t

C16_Witness ==
  /\ pc = "saved"
  /\ Appended("RUN")
  /\ ~state_id_mismatch(loaded, Sid)
  /\ "BOVA11" \in DOMAIN loaded.positions
  /\ loaded.positions["BOVA11"].state = 1
  /\ DOMAIN signals = {"PETR4"}
  /\ DOMAIN load_state(fs).positions = {"PETR4"}

\* C17: in the positions a RUN persists, state is 1 exactly when the weight
\* is > 0, the weight is 0 for state 0 and 1/n for state 1, n being the number
\* of positions with state 1; the weights sum to 1 or to 0.
C17_PositionsConsistent ==
  (pc \in {"saved", "done"} /\ Appended("RUN")) =>
     LET positions == load_state(fs).positions
         n         == Cardinality({t \in DOMAIN positions : positions[t].state = 1})
         weights   == [t \in DOMAIN positions |-> positions[t].weight]
     IN  /\ \A t \in DOMAIN positions :
              /\ positions[t].state \in {0, 1}
              /\ positions[t].state = 1 <=> positions[t].weight[1] > 0
              /\ positions[t].state = 0 => positions[t].weight = Zero
              /\ positions[t].state = 1 => positions[t].weight[1] * n = positions[t].weight[2]
         /\ RatioSum(weights, OrderedKeys(weights, TickerOrder)) \in {Zero, <<1, 1>>}

C17_Witness ==
  /\ pc = "saved"
  /\ Appended("RUN")
  /\ LET positions == load_state(fs).positions
     IN  /\ Cardinality({t \in DOMAIN positions : positions[t].state = 1}) = 2
         /\ \A t \in DOMAIN positions : positions[t].weight = <<1, 2>>

\* C18: a ticker whose series is not empty but shorter than the window is
\* unavailable: it is skipped and gets no entry in the signal map.
C18_ShortSeriesUnavailable ==
  (call.fn = "signal_on_off" /\ Len(call.df) > 0 /\ Len(call.df) < call.sma_window) =>
     call.ret.skipped

\* C19: for a series of at least window closes, the signal run() takes is 1
\* exactly when the last close is strictly above the mean of the last window
\* closes; a close equal to the mean gives 0.
C19_SignalAboveAverage ==
  (call.fn = "signal_on_off" /\ Len(call.df) >= call.sma_window) =>
     LET df   == call.df
         w    == call.sma_window
         last == df[Len(df)]
         sum  == SumSeq(SubSeq(df, Len(df) - w + 1, Len(df)))
     IN  /\ ~call.ret.skipped
         /\ call.ret.last_row.Close = last
         /\ call.ret.last_row.Signal \in {0, 1}
         /\ call.ret.last_row.Signal = 1 <=> last * w > sum
         /\ last * w = sum => call.ret.last_row.Signal = 0

C19_Witness ==
  /\ call.fn = "signal_on_off"
  /\ call.sma_window = 3
  /\ call.df = <<100, 110, 110, 110>>
  /\ ~call.ret.skipped
  /\ call.ret.last_row.SMA = <<110, 1>>
  /\ call.ret.last_row.Signal = 0

\* the return of the positions of prior at the prices today: the sum, over
\* the tickers with a recorded price and a price today, of
\* weight * (today / recorded - 1)
PortfolioReturn(prior, today) ==
  LET held  == (DOMAIN prior.positions) \cap (DOMAIN prior.last_prices) \cap (DOMAIN today)
      terms == [t \in held |->
                  Ratio(prior.positions[t].weight[1] * (today[t] - prior.last_prices[t]),
                        prior.positions[t].weight[2] * prior.last_prices[t])]
  IN  RatioSum(terms, OrderedKeys(terms, TickerOrder))

\* C20: a RUN persists the equity of the state it started from advanced by
\* the portfolio return at today's prices, and the drawdown it persists is
\* the one of the advanced equity.
C20_MarkToMarket ==
  (pc \in {"saved", "done"} /\ Appended("RUN")) =>
     LET prior == checked_state(cfg, loaded, Sid)
         ret   == PortfolioReturn(prior, prices)
         p     == load_state(fs)
     IN  /\ p.equity * ret[2] = prior.equity * (ret[2] + ret[1])
         /\ p.peak_equity > 0 =>
              p.last_drawdown[1] * p.peak_equity = (p.peak_equity - p.equity) * p.last_drawdown[2]

\* C21: every state the job persists has peak_equity >= equity.
C21_PeakAtLeastEquity ==
  pc \in {"saved", "done"} =>
     load_state(fs).peak_equity >= load_state(fs).equity

C21_Witness ==
  /\ pc = "saved"
  /\ fs[STATE_FILE] # fs0[STATE_FILE]
  /\ state_id_mismatch(loaded, Sid)
  /\ load_state(fs).peak_equity = cfg.initial_equity
  /\ load_state(fs).equity = cfg.initial_equity

\* C22: every state the job persists, after a RUN or a NO_DATA run, has
\* last_drawdown = (peak_equity - equity) / peak_equity when peak_equity > 0
\* and last_drawdown = 0 otherwise.
C22_DrawdownMatchesEquity ==
  pc \in {"saved", "done"} =>
     LET p == load_state(fs)
     IN  /\ p.peak_equity > 0 =>
              /\ p.last_drawdown[2] > 0
              /\ p.last_drawdown[1] * p.peak_equity =
                   (p.peak_equity - p.equity) * p.last_drawdown[2]
         /\ ~(p.peak_equity > 0) => p.last_drawdown = Zero

C22_Witness ==
  /\ pc = "saved"
  /\ Appended("NO_DATA")
  /\ fs[STATE_FILE] # fs0[STATE_FILE]
  /\ load_state(fs).equity = 80000
  /\ load_state(fs).peak_equity = 100000
  /\ load_state(fs).last_drawdown = <<1, 5>>

\* C23: every step leaves the log as it is or adds one line at its end, the
\* lines before it unchanged; the log an invocation started with stays a
\* prefix of the log.
C23_LogAppendOnly ==
  [][/\ \/ log' = log
        \/ Len(log') = Len(log) + 1 /\ SubSeq(log', 1, Len(log)) = log
     /\ Len(log0') <= Len(log') /\ SubSeq(log', 1, Len(log0')) = log0']_vars

C23_Witness ==
  /\ pc = "done"
  /\ Len(log0) = 1
  /\ Len(log) = 2
  /\ log[1] = log0[1]
  /\ log[1].ts # log[2].ts

\* C24: a run with the kill switch enabled and at least one signal gets
\* through the kill-switch check: it does not end in an error, and it ends
\* with one RUN event appended and the new state persisted.
C24_KillCheckCompletes ==
  (pc # "idle" /\ cfg.kill_enabled /\ idx > Len(cfg.assets) /\ DOMAIN signals # {}) =>
     /\ pc # "error"
     /\ pc = "done" => (Appended("RUN") /\ fs[STATE_FILE] = json_dump(save_payload(st)))

\* C25: at every point of a save_state that started with a valid state.json
\* holding A and writes B, load_state returns A or B.
C25_ReaderSeesOldOrNew ==
  (InSave /\ Parses(fs0[STATE_FILE])) =>
     \/ load_state(fs) = merge_defaults(fs0[STATE_FILE])
     \/ load_state(fs) = save_payload(st)

\* C27: a run that finds no state_id mismatch persists the equity it loaded,
\* whatever its prices and signals are.
C27_EquityNeverMoves ==
  (pc \in {"saved", "done"} /\ ~state_id_mismatch(loaded, Sid)) =>
     load_state(fs).equity = loaded.equity

C27_Witness ==
  /\ pc = "saved"
  /\ Appended("RUN")
  /\ ~state_id_mismatch(loaded, Sid)
  /\ \E t \in (DOMAIN loaded.last_prices) \cap (DOMAIN prices) :
       /\ loaded.positions[t].state = 1
       /\ prices[t] # loaded.last_prices[t]
  /\ load_state(fs).equity = loaded.equity
  /\ load_state(fs).last_prices = prices

\* ------------------------------------- the job run again on the same data
\* frames per ticker of the universe, returned unchanged at every run
Feeds(assets) ==
  [{assets[i].ticker : i \in DOMAIN assets} -> SeriesSet \cup {<<>>}]

\* run(), lines 161-177: signals, prices and skipped after the first n assets
RECURSIVE fetch_loop(_, _, _, _)
fetch_loop(assets, data, window, n) ==
  IF n = 0
  THEN [signals |-> <<>>, prices |-> <<>>, skipped |-> <<>>]
  ELSE LET acc == fetch_loop(assets, data, window, n - 1)
           t   == assets[n].ticker
           got == ticker_signal(data[t], window)
       IN  IF got.skipped
           THEN [acc EXCEPT !.skipped = Append(@, t)]
           ELSE [acc EXCEPT !.signals = Update(@, [x \in {t} |-> got.last_row.Signal]),
                            !.prices = Update(@, [x \in {t} |-> got.last_row.Close])]

\* save_state(state) from its first line to its last on the files f
save_state(f, state, renamed) ==
  LET written == [f EXCEPT ![save_write_path] = json_dump(save_payload(state))]
      backed  == IF written[STATE_FILE].exists /\ renamed
                 THEN os_replace(written, STATE_FILE, BAK_FILE)
                 ELSE written
  IN  os_replace(backed, TMP_FILE, STATE_FILE)

RerunInit ==
  /\ \E d \in StateDirs : fs = FilesOf(d)
  /\ log = <<>>
  /\ pc = "idle"
  /\ runs = 0
  /\ cfg \in Configs
  /\ feed \in Feeds(cfg.assets)
  /\ st = DEFAULT_STATE
  /\ signals = <<>>
  /\ prices = <<>>
  /\ skipped = <<>>
  /\ idx = 1
  /\ loaded = DEFAULT_STATE
  /\ fs0 = fs
  /\ log0 = log
  /\ killed = "no"
  /\ call = NoCall
  /\ savers = NoSavers

\* run() from its first line to its last, on the settings cfg and the data feed
RunOnce ==
  /\ pc \in {"idle", "done", "error"}
  /\ runs < MaxRuns
  /\ LET now     == Timestamp(runs + 1)
         state   == checked_state(cfg, load_state(fs), Sid)
         fetched == fetch_loop(cfg.assets, feed, cfg.window, Len(cfg.assets))
         a       == allocate(cfg, state, fetched.signals, fetched.prices, now)
     IN  /\ loaded' = load_state(fs)
         /\ prices' = fetched.prices
         /\ skipped' = fetched.skipped
         /\ idx' = Len(cfg.assets) + 1
         /\ IF DOMAIN fetched.signals = {}
            THEN /\ log_event(no_data_event(cfg, Sid, now, fetched.skipped))
                 /\ st' = no_data_state(state, now)
                 /\ signals' = fetched.signals
                 /\ \E renamed \in BOOLEAN : fs' = save_state(fs, st', renamed)
                 /\ pc' = "done"
            ELSE IF a.raised
            THEN /\ st' = state
                 /\ signals' = fetched.signals
                 /\ pc' = "error"
                 /\ UNCHANGED <<fs, log>>
            ELSE /\ log_event(run_event(cfg, Sid, now, a, fetched.skipped, fetched.prices))
                 /\ st' = a.state
                 /\ signals' = a.signals
                 /\ \E renamed \in BOOLEAN : fs' = save_state(fs, st', renamed)
                 /\ pc' = "done"
  /\ runs' = runs + 1
  /\ fs0' = fs
  /\ log0' = log
  /\ UNCHANGED <<cfg, killed, call, feed, savers>>

RerunNext ==
  \/ RunOnce

RerunSpec == RerunInit /\ [][RerunNext]_vars

\* C26: the second of two runs in succession on the same settings and the
\* same price data ends normally, emits no order, and persists the state the
\* first run persisted, last_run apart.
C26_IdempotentRerun ==
  (runs >= 2 /\ pc # "idle") =>
     /\ pc = "done"
     /\ Appended("RUN") => log[Len(log)].orders = <<>>
     /\ DOMAIN load_state(fs) = DOMAIN load_state(fs0)
     /\ \A k \in DOMAIN load_state(fs) \ {"last_run"} :
          load_state(fs)[k] = load_state(fs0)[k]

\* ------------------------------------------ two save_state calls at once
Savers == {1, 2}

\* the states the two runners pass to save_state
SaverState(i) ==
  IF i = 1 THEN [AcceptedState EXCEPT !.last_run = Timestamp(1)]
  ELSE [KilledState EXCEPT !.last_run = Timestamp(2)]

\* the text of a file cell by cell: its entries, and the closing brace; a
\* cell that was skipped by a write past the end is a hole
Brace == <<"}">>
Hole == <<"hole">>
Raw(file) == IF file.closed THEN file.entries \o <<Brace>> ELSE file.entries

WellFormed(cells) ==
  /\ Len(cells) >= 1
  /\ cells[Len(cells)] = Brace
  /\ \A i \in 1..(Len(cells) - 1) : cells[i] \notin {Brace, Hole}

FromRaw(cells) ==
  IF WellFormed(cells)
  THEN [exists |-> TRUE, top |-> "object",
        entries |-> SubSeq(cells, 1, Len(cells) - 1), closed |-> TRUE]
  ELSE [exists |-> TRUE, top |-> "object", entries |-> cells, closed |-> FALSE]

\* f.write of chunk at offset off of a file holding cells
WriteAt(cells, off, chunk) ==
  LET end == IF off + Len(chunk) > Len(cells) THEN off + Len(chunk) ELSE Len(cells)
  IN  [i \in 1..end |->
         IF i > off /\ i <= off + Len(chunk) THEN chunk[i - off]
         ELSE IF i <= Len(cells) THEN cells[i]
         ELSE Hole]

\* the path an open file is found at after os.replace(src, dst): the file
\* that was at dst has no name any more
FdAfterReplace(fd, src, dst) ==
  IF fd = dst THEN "unlinked" ELSE IF fd = src THEN dst ELSE fd

StoreInit ==
  /\ \E d \in StateDirs : fs = FilesOf(d)
  /\ log = <<>>
  /\ pc = "idle"
  /\ runs = 0
  /\ cfg = CHOOSE c \in Configs : TRUE
  /\ st = DEFAULT_STATE
  /\ signals = <<>>
  /\ prices = <<>>
  /\ skipped = <<>>
  /\ idx = 1
  /\ loaded = DEFAULT_STATE
  /\ fs0 = fs
  /\ log0 = log
  /\ killed = "no"
  /\ call = NoCall
  /\ feed = NoFeed
  /\ savers = [i \in Savers |->
                 [pc |-> "start", fd |-> "none", off |-> 0, turn |-> 0, alone |-> FALSE]]

storevars ==
  <<log, pc, runs, cfg, st, signals, prices, skipped, idx, loaded, fs0, log0, killed, call, feed>>

SaverEnded(i) == savers[i].pc \in {"returned", "raised"}
SaverBusy(i) == savers[i].pc \notin {"start", "returned", "raised"}

\* os.replace(src, dst) by saver i, who goes on at next_pc
SaverReplace(i, src, dst, next_pc) ==
  /\ fs' = os_replace(fs, src, dst)
  /\ savers' = [j \in Savers |->
                  IF j = i THEN [savers[j] EXCEPT !.pc = next_pc]
                  ELSE [savers[j] EXCEPT !.fd = FdAfterReplace(savers[j].fd, src, dst)]]

\* line 87: open(tmp, "w") creates the file or empties the one that is there
SaverOpen(i) ==
  /\ savers[i].pc = "start"
  /\ fs' = [fs EXCEPT ![save_write_path] = EmptyFile]
  /\ savers' = [savers EXCEPT
                  ![i] = [ pc    |-> "write",
                           fd    |-> save_write_path,
                           off   |-> 0,
                           turn  |-> 1 + Cardinality({j \in Savers : savers[j].pc # "start"}),
                           alone |-> \A j \in Savers \ {i} : ~SaverBusy(j) ]]
  /\ UNCHANGED storevars

\* line 88: the next piece of the payload goes to the open file at its offset
SaverWrite(i) ==
  /\ savers[i].pc = "write"
  /\ LET entries == json_dump_entries(save_payload(SaverState(i)))
         n       == savers[i].off
         m       == IF n + ChunkEntries < Len(entries) THEN n + ChunkEntries ELSE Len(entries)
         fd      == savers[i].fd
     IN  /\ n < Len(entries)
         /\ fs' = IF fd \in Paths
                  THEN [fs EXCEPT ![fd] = FromRaw(WriteAt(Raw(fs[fd]), n, SubSeq(entries, n + 1, m)))]
                  ELSE fs
         /\ savers' = [savers EXCEPT ![i].off = m]
  /\ UNCHANGED storevars

\* lines 88-90: the closing brace, flush, fsync, close
SaverClose(i) ==
  /\ savers[i].pc = "write"
  /\ savers[i].off = Len(json_dump_entries(save_payload(SaverState(i))))
  /\ LET fd == savers[i].fd
     IN  fs' = IF fd \in Paths
               THEN [fs EXCEPT ![fd] = FromRaw(WriteAt(Raw(fs[fd]), savers[i].off, <<Brace>>))]
               ELSE fs
  /\ savers' = [savers EXCEPT ![i].pc = "backup", ![i].fd = "none"]
  /\ UNCHANGED storevars

\* lines 93-97: the current file becomes the backup; a failure is passed over
SaverBackup(i) ==
  /\ savers[i].pc = "backup"
  /\ \E renamed \in BOOLEAN :
       IF fs[STATE_FILE].exists /\ renamed
       THEN SaverReplace(i, STATE_FILE, BAK_FILE, "promote")
       ELSE /\ savers' = [savers EXCEPT ![i].pc = "promote"]
            /\ UNCHANGED fs
  /\ UNCHANGED storevars

\* line 100: os.replace(tmp, STATE_FILE); FileNotFoundError without a tmp
SaverPromote(i) ==
  /\ savers[i].pc = "promote"
  /\ IF fs[TMP_FILE].exists
     THEN SaverReplace(i, TMP_FILE, STATE_FILE, "returned")
     ELSE /\ savers' = [savers EXCEPT ![i].pc = "raised"]
          /\ UNCHANGED fs
  /\ UNCHANGED storevars

StoreNext ==
  \/ \E i \in Savers : SaverOpen(i)
  \/ \E i \in Savers : SaverWrite(i)
  \/ \E i \in Savers : SaverClose(i)
  \/ \E i \in Savers : SaverBackup(i)
  \/ \E i \in Savers : SaverPromote(i)

StoreSpec == StoreInit /\ [][StoreNext]_vars

\* C28: however the steps of two save_state calls interleave, both calls
\* return and state.json ends as the complete state of one of them.
C28_InterleavedSaves ==
  (\A i \in Savers : SaverEnded(i)) =>
     /\ \A i \in Savers : savers[i].pc = "returned"
     /\ \E i \in Savers : fs[STATE_FILE] = json_dump(save_payload(SaverState(i)))

\* C28, amended: when neither call starts while the other is in progress,
\* both return and state.json ends as the complete state of the later call.
C28_SerialSaves ==
  ((\A i \in Savers : SaverEnded(i)) /\ (\A i \in Savers : savers[i].alone)) =>
     /\ \A i \in Savers : savers[i].pc = "returned"
     /\ \A i \in Savers :
          savers[i].turn = 2 => fs[STATE_FILE] = json_dump(save_payload(SaverState(i)))
     /\ ~fs[TMP_FILE].exists

C28_Witness ==
  /\ \A i \in Savers : SaverEnded(i) /\ savers[i].alone
  /\ savers[1].turn = 2
  /\ fs[STATE_FILE] = json_dump(save_payload(SaverState(1)))
  /\ fs[BAK_FILE] = json_dump(save_payload(SaverState(2)))
====
